---- MODULE Spec2Model ----
(***************************************************************************)
(* Model of the interview transcription tool: the Streamlit scripts app.py *)
(* and test.py.  One submission uploads an audio file, requests a          *)
(* transcription job, polls it, builds the speaker-labelled dialogue, runs *)
(* the local model on a prompt and appends a row to interview_reports.csv. *)
(*                                                                         *)
(* A Python string is a sequence of atoms (an atom stands for a run of     *)
(* characters), so that concatenation, strip() and the CSV round trip are  *)
(* computed and not assumed.  An optional value (None, NaN) is the empty   *)
(* sequence and a present value v is <<v>>.                                *)
(***************************************************************************)
EXTENDS Integers, Sequences, FiniteSets, TLC

VARIABLES
    apiKey,          \* ASSEMBLYAI_API_KEY is set in the environment
    pc,              \* position of the running script
    script,          \* "app" or "test": the script the submission runs
    uploaded_file,   \* uploaded_file.name
    analysis_type,   \* value of the selectbox (app.py)
    custom_prompt,   \* text area: custom_prompt (app.py) / prompt (test.py)
    transcripts,     \* st.session_state['transcripts']
    job,             \* the remote transcription job (service side)
    delivered,       \* utterance lists the service has returned as completed
    net,             \* requests this submission has sent to the service
    data,            \* last poll response (response.json())
    transcript_text, \* optional string
    displayed,       \* optional string: the transcript text area
    base_prompt,     \* optional string
    formatted_prompt,\* optional string: the prompt handed to the runner
    result,          \* outcome of subprocess.run
    analysis,        \* optional string
    error,           \* what aborted the submission, "" if nothing
    file,            \* interview_reports.csv
    file_before,     \* the file as it was when the submission started
    budget,          \* submissions left in the session
    now,             \* the clock read by datetime.now()
    spc,             \* concurrent saves: position of each saver
    df_existing,     \* concurrent saves: the frame each saver read
    report_dict      \* concurrent saves: the row each saver appends

vars == <<apiKey, pc, script, uploaded_file, analysis_type, custom_prompt,
          transcripts, job, delivered, net, data, transcript_text, displayed,
          base_prompt, formatted_prompt, result, analysis, error, file,
          file_before, budget, now, spc, df_existing, report_dict>>

(***************************************************************************)
(* Bounds of the model.                                                    *)
(***************************************************************************)
MaxRuns == 2
MaxUtts == 2

(***************************************************************************)
(* Strings and optional values.                                            *)
(***************************************************************************)
Lit(a) == <<a>>
NoValue == <<>>
Some(v) == <<v>>

Whitespace == {" ", "\n", "\n\n"}

RECURSIVE LStrip(_)
LStrip(s) == IF s # <<>> /\ Head(s) \in Whitespace THEN LStrip(Tail(s)) ELSE s

RECURSIVE RStrip(_)
RStrip(s) ==
    IF s # <<>> /\ s[Len(s)] \in Whitespace
    THEN RStrip(SubSeq(s, 1, Len(s) - 1))
    ELSE s

Strip(s) == RStrip(LStrip(s))

(***************************************************************************)
(* The poller: labels and the dialogue string.                             *)
(***************************************************************************)
Get(d, key, default) == IF key \in DOMAIN d THEN d[key] ELSE default

LabelApp(speaker) ==
    IF speaker = Lit("Speaker 0") THEN Lit("Interviewer") ELSE Lit("Interviewee")

LabelTest(speaker) ==
    IF speaker = Lit("Speaker 0") THEN Lit("Interviewer")
    ELSE IF speaker = Lit("Speaker 1") THEN Lit("Interviewee")
    ELSE speaker

Label(s, speaker) == IF s = "app" THEN LabelApp(speaker) ELSE LabelTest(speaker)

ParagraphNoSeparator(s, utt) ==
    Label(s, Get(utt, "speaker", Lit("Speaker"))) \o Lit(": ")
        \o Get(utt, "text", <<>>)

Paragraph(s, utt) ==
    Label(s, Get(utt, "speaker", Lit("Speaker"))) \o Lit(": ")
        \o Get(utt, "text", <<>>) \o Lit("\n\n")

RECURSIVE Dialogue(_, _)
Dialogue(s, utts) ==
    IF utts = <<>> THEN <<>>
    ELSE Dialogue(s, SubSeq(utts, 1, Len(utts) - 1))
            \o Paragraph(s, utts[Len(utts)])

PollReturnsOnProcessing(d) ==
    IF d.status \in {"completed", "processing"} THEN "return"
    ELSE IF d.status = "error" THEN "stop"
    ELSE "sleep"

PollGivesUpOnProcessing(d) ==
    IF d.status = "completed" THEN "return"
    ELSE IF d.status \in {"error", "processing"} THEN "stop"
    ELSE "sleep"

PollBranch(d) ==
    IF d.status = "completed" THEN "return"
    ELSE IF d.status = "error" THEN "stop"
    ELSE "sleep"

(***************************************************************************)
(* The prompt.                                                             *)
(***************************************************************************)
AnalysisTypes ==
    <<"Skill Summary", "Behavioral Analysis", "Technical Depth", "Extract Q&A",
      "Custom Prompt">>

prompt_map ==
    [t \in {"Skill Summary", "Behavioral Analysis", "Technical Depth",
            "Extract Q&A"} |->
        IF t = "Skill Summary" THEN Lit("Evaluate the interviewee's performance ...")
        ELSE IF t = "Behavioral Analysis" THEN Lit("Based on the transcript, perform a behavioral analysis ...")
        ELSE IF t = "Technical Depth" THEN Lit("Evaluate the technical depth ...")
        ELSE Lit("You are given the full interview transcript ...")]

BasePrompt(type, custom) ==
    IF type = "Custom Prompt" THEN Some(custom)
    ELSE IF type \in DOMAIN prompt_map THEN Some(prompt_map[type])
    ELSE NoValue

FormattedPrompt(s, transcript, base) ==
    IF s = "app"
    THEN Lit("\nYou are a helpful and precise AI interview assistant.\n\n### Transcript\n")
            \o transcript \o Lit("\n\n### Task\n") \o base \o Lit("\n")
    ELSE transcript \o Lit("\n\n") \o base

(***************************************************************************)
(* The model runner.                                                       *)
(***************************************************************************)
AnalysisOfRaising(r) ==
    IF r.outcome = "exit0" THEN Some(Strip(r.stdout)) ELSE NoValue

AnalysisOf(r) ==
    IF r.outcome = "exit0" THEN Some(Strip(r.stdout))
    ELSE IF r.outcome = "nonzero" THEN Some(Lit("Error calling Ollama: ") \o r.stderr)
    ELSE NoValue

(***************************************************************************)
(* The report store: pandas read_csv, concat and to_csv.                   *)
(* A file is a sequence of lines, a line a sequence of cells, the first    *)
(* line the header.  A frame has columns and rows of optional strings.     *)
(***************************************************************************)
NaN == NoValue

NaValues == {<<>>, Lit("N/A"), Lit("NA"), Lit("NaN"), Lit("nan"), Lit("null"),
             Lit("NULL"), Lit("n/a"), Lit("<NA>"), Lit("#N/A")}

EmptyFrame == [cols |-> <<>>, rows |-> <<>>]

ParseCell(c) == IF c \in NaValues THEN NaN ELSE Some(c)

FormatCell(v) == IF v = NaN THEN <<>> ELSE v[1]

read_csv(f) ==
    IF ~f.exists \/ f.lines = <<>> THEN EmptyFrame
    ELSE [cols |-> f.lines[1],
          rows |-> [i \in 1 .. Len(f.lines) - 1 |->
                      [j \in 1 .. Len(f.lines[i + 1]) |-> ParseCell(f.lines[i + 1][j])]]]

DataFrame(rd) ==
    [cols |-> rd.keys, rows |-> << [j \in 1 .. Len(rd.vals) |-> Some(rd.vals[j])] >>]

RECURSIVE NewCols(_, _)
NewCols(have, more) ==
    IF more = <<>> THEN <<>>
    ELSE IF \E i \in 1 .. Len(have) : have[i] = Head(more)
         THEN NewCols(have, Tail(more))
         ELSE <<Head(more)>> \o NewCols(have \o <<Head(more)>>, Tail(more))

Reindex(df, cols) ==
    [i \in 1 .. Len(df.rows) |->
        [j \in 1 .. Len(cols) |->
            IF \E k \in 1 .. Len(df.cols) : df.cols[k] = cols[j]
            THEN df.rows[i][CHOOSE k \in 1 .. Len(df.cols) : df.cols[k] = cols[j]]
            ELSE NaN]]

concat(a, b) ==
    LET cols == a.cols \o NewCols(a.cols, b.cols)
    IN  [cols |-> cols, rows |-> Reindex(a, cols) \o Reindex(b, cols)]

to_csv(df) ==
    [exists |-> TRUE,
     lines |-> <<df.cols>> \o
               [i \in 1 .. Len(df.rows) |->
                   [j \in 1 .. Len(df.cols) |-> FormatCell(df.rows[i][j])]]]

AppendToFile(f, df, rd) ==
    LET old == IF f.exists THEN f.lines ELSE <<>>
    IN  [exists |-> TRUE,
         lines |-> (IF old = <<>> THEN <<rd.keys>> ELSE old) \o <<rd.vals>>]

WriteBack(f, df, rd) == to_csv(concat(df, DataFrame(rd)))

save_report_to_csv(f, rd) == WriteBack(f, read_csv(f), rd)

RowCount(f) == IF ~f.exists \/ f.lines = <<>> THEN 0 ELSE Len(f.lines) - 1

Timestamp(t) == Lit(ToString(t))

ReportDict(s, t, name, type, transcript, an, base) ==
    IF s = "app"
    THEN [keys |-> <<Lit("timestamp"), Lit("filename"), Lit("analysis_type"),
                     Lit("transcript"), Lit("analysis"), Lit("prompt_used")>>,
          vals |-> <<Timestamp(t), Lit(name), Lit(type), transcript, an, base>>]
    ELSE [keys |-> <<Lit("timestamp"), Lit("filename"), Lit("transcript"),
                     Lit("analysis")>>,
          vals |-> <<Timestamp(t), Lit(name), transcript, an>>]

(***************************************************************************)
(* Inputs and the environment.                                             *)
(***************************************************************************)
Scripts == {"app", "test"}

Files == {"a.mp3", "b.mp3"}

SelectableTypes == {AnalysisTypes[i] : i \in 1 .. Len(AnalysisTypes)}

CustomPrompts == {Lit("Summarize the call")}

Question == [speaker |-> Lit("Speaker 0"), text |-> Lit("Tell me about yourself")]

Answer == [speaker |-> Lit("Speaker 1"), text |-> Lit("I am a backend engineer")]

SampleUtterances == {<<>>, <<Question, Answer>>}

UtteranceKinds ==
    {Question, Answer,
     [speaker |-> Lit("A"), text |-> Lit("Hello")],
     [speaker |-> Lit("B"), text |-> <<>>],
     [text |-> Lit("Hm")]}

RECURSIVE SeqsUpTo(_, _)
SeqsUpTo(S, n) ==
    IF n = 0 THEN {<<>>}
    ELSE LET shorter == SeqsUpTo(S, n - 1)
         IN  shorter \cup {Append(q, x) : q \in shorter, x \in S}

RunnerResults ==
    {[outcome |-> "exit0", stdout |-> <<"N/A", "\n">>, stderr |-> <<>>],
     [outcome |-> "exit0", stdout |-> <<"Overall Score: 7/10", "\n">>, stderr |-> <<>>],
     [outcome |-> "nonzero", stdout |-> <<>>, stderr |-> <<"model not found", "\n">>],
     [outcome |-> "oserror", stdout |-> <<>>, stderr |-> <<>>]}

NoJob == [status |-> "none"]

NoFile == [exists |-> FALSE, lines |-> <<>>]

EmptyFile == [exists |-> TRUE, lines |-> <<>>]

NoCache == [n \in {} |-> <<>>]

Response(j) ==
    IF j.status = "completed" THEN [status |-> "completed", utterances |-> j.utterances]
    ELSE IF j.status = "error" THEN [status |-> "error", error |-> j.error]
    ELSE [status |-> j.status]

(***************************************************************************)
(* The submit handler, one action per blocking call.                       *)
(***************************************************************************)
InFlight == {"upload", "request", "poll", "analyze", "save"}

NeverStops(at) == IF at = "upload" THEN "request" ELSE "stopped"

OnError(at) == "stopped"

KeyNeverMissing(s, key) == FALSE

KeyMissing(s, key) == s = "app" /\ ~key

NeverCached(s, name, cache) == FALSE

Cached(s, name, cache) == s = "app" /\ name \in DOMAIN cache

CachePut(s, name, cache, t) ==
    IF s = "app"
    THEN [n \in DOMAIN cache \cup {name} |-> IF n = name THEN t ELSE cache[n]]
    ELSE cache

RunLocalsCleared ==
    /\ net' = {}
    /\ data' = NoValue
    /\ result' = NoValue
    /\ analysis' = NoValue

\* The script starts: widgets are read and "Submit" was pressed.
Submit(s, name, type, custom) ==
    /\ pc \in {"idle", "done", "stopped"}
    /\ budget > 0
    /\ budget' = budget - 1
    /\ now' = now + 1
    /\ script' = s
    /\ uploaded_file' = name
    /\ analysis_type' = type
    /\ custom_prompt' = IF s = "test" \/ type = "Custom Prompt" THEN custom ELSE <<>>
    /\ file_before' = file
    /\ RunLocalsCleared
    /\ IF KeyMissing(s, apiKey)
       THEN /\ pc' = "stopped"
            /\ error' = "missing key"
            /\ transcript_text' = NoValue
            /\ displayed' = NoValue
            /\ base_prompt' = NoValue
            /\ formatted_prompt' = NoValue
       ELSE IF Cached(s, name, transcripts)
       THEN /\ transcript_text' = Some(transcripts[name])
            /\ displayed' = Some(transcripts[name])
            /\ base_prompt' = BasePrompt(type, custom_prompt')
            /\ formatted_prompt' =
                   IF base_prompt' = NoValue THEN NoValue
                   ELSE Some(FormattedPrompt(s, transcripts[name], base_prompt'[1]))
            /\ pc' = IF base_prompt' = NoValue THEN "stopped" ELSE "analyze"
            /\ error' = IF base_prompt' = NoValue THEN "KeyError" ELSE ""
       ELSE /\ pc' = "upload"
            /\ error' = ""
            /\ transcript_text' = NoValue
            /\ displayed' = NoValue
            /\ base_prompt' = NoValue
            /\ formatted_prompt' = NoValue
    /\ UNCHANGED <<apiKey, transcripts, job, delivered, file, spc, df_existing,
                   report_dict>>

\* upload_audio: one POST; without a credential the service refuses it.
Upload ==
    /\ pc = "upload"
    /\ net' = net \cup {"upload"}
    /\ \E ok \in BOOLEAN :
          /\ ok => apiKey
          /\ pc' = IF ok THEN "request" ELSE OnError("upload")
          /\ error' = IF ok THEN "" ELSE "upload"
    /\ UNCHANGED <<apiKey, script, uploaded_file, analysis_type, custom_prompt,
                   transcripts, job, delivered, data, transcript_text, displayed,
                   base_prompt, formatted_prompt, result, analysis, file, file_before, budget,
                   now, spc, df_existing, report_dict>>

\* request_transcription: one POST; the service creates the job.
Request ==
    /\ pc = "request"
    /\ net' = net \cup {"transcript"}
    /\ \E ok \in BOOLEAN :
          /\ ok => apiKey
          /\ pc' = IF ok THEN "poll" ELSE OnError("request")
          /\ error' = IF ok THEN "" ELSE "request"
          /\ IF ok
             THEN \E u \in SampleUtterances :
                     job' = [status |-> "queued", utterances |-> u,
                             error |-> Lit("corrupt file")]
             ELSE job' = job
    /\ UNCHANGED <<apiKey, script, uploaded_file, analysis_type, custom_prompt,
                   transcripts, delivered, data, transcript_text, displayed,
                   base_prompt, formatted_prompt, result, analysis, file, file_before, budget,
                   now, spc, df_existing, report_dict>>

\* The remote service works on the job.
ServiceAdvance ==
    /\ pc = "poll"
    /\ job.status \in {"queued", "processing"}
    /\ \E st \in {"processing", "completed", "error"} :
          /\ (job.status = "processing") => st # "processing"
          /\ job' = [job EXCEPT !.status = st]
    /\ UNCHANGED <<apiKey, pc, script, uploaded_file, analysis_type, custom_prompt,
                   transcripts, delivered, net, data, transcript_text, displayed,
                   base_prompt, formatted_prompt, result, analysis, error, file,
                   file_before, budget, now, spc, df_existing, report_dict>>

\* One iteration of the poll loop, with what follows the loop up to the
\* next blocking call.
Poll ==
    /\ pc = "poll"
    /\ net' = net \cup {"poll"}
    /\ \E ok \in BOOLEAN :
          IF ~ok
          THEN /\ pc' = OnError("poll")
               /\ error' = "poll"
               /\ UNCHANGED <<data, delivered, transcript_text, displayed,
                              transcripts, base_prompt, formatted_prompt>>
          ELSE LET d == Response(job)
                   t == Dialogue(script, Get(d, "utterances", <<>>))
                   b == BasePrompt(analysis_type, custom_prompt)
               IN  /\ data' = Some(d)
                   /\ delivered' = IF d.status = "completed"
                                    THEN delivered \cup {d.utterances}
                                    ELSE delivered
                   /\ IF PollBranch(d) = "return"
                      THEN /\ transcript_text' = Some(t)
                           /\ displayed' = Some(t)
                           /\ transcripts' = CachePut(script, uploaded_file, transcripts, t)
                           /\ base_prompt' = IF script = "app" THEN b ELSE Some(custom_prompt)
                           /\ formatted_prompt' =
                                  IF base_prompt' = NoValue THEN NoValue
                                  ELSE Some(FormattedPrompt(script, t, base_prompt'[1]))
                           /\ pc' = IF base_prompt' = NoValue THEN "stopped" ELSE "analyze"
                           /\ error' = IF base_prompt' = NoValue THEN "KeyError" ELSE ""
                      ELSE IF PollBranch(d) = "stop"
                      THEN /\ pc' = OnError("transcription")
                           /\ error' = "transcription"
                           /\ UNCHANGED <<transcript_text, displayed, transcripts,
                                          base_prompt, formatted_prompt>>
                      ELSE /\ pc' = "poll"
                           /\ error' = ""
                           /\ UNCHANGED <<transcript_text, displayed, transcripts,
                                          base_prompt, formatted_prompt>>
    /\ UNCHANGED <<apiKey, script, uploaded_file, analysis_type, custom_prompt, job,
                   result, analysis, file, file_before, budget, now, spc, df_existing,
                   report_dict>>

\* analyze_with_ollama: the runner is a blocking subprocess.
Analyze ==
    /\ pc = "analyze"
    /\ \E r \in RunnerResults :
          /\ result' = Some(r)
          /\ analysis' = AnalysisOf(r)
          /\ pc' = IF analysis' = NoValue THEN "stopped" ELSE "save"
          /\ error' = IF analysis' = NoValue THEN "runner" ELSE ""
    /\ UNCHANGED <<apiKey, script, uploaded_file, analysis_type, custom_prompt,
                   transcripts, job, delivered, net, data, transcript_text,
                   displayed, base_prompt, formatted_prompt, file, file_before, budget, now, spc,
                   df_existing, report_dict>>

CurrentReport ==
    ReportDict(script, now, uploaded_file, analysis_type, transcript_text[1],
               analysis[1], base_prompt[1])

\* save_report_to_csv, as the only writer of the file.
Save ==
    /\ pc = "save"
    /\ file' = save_report_to_csv(file, CurrentReport)
    /\ pc' = "done"
    /\ UNCHANGED <<apiKey, script, uploaded_file, analysis_type, custom_prompt,
                   transcripts, job, delivered, net, data, transcript_text,
                   displayed, base_prompt, formatted_prompt, result, analysis, error,
                   file_before, budget, now, spc, df_existing, report_dict>>

InitWith(b) ==
    /\ apiKey \in BOOLEAN
    /\ file \in {NoFile, EmptyFile}
    /\ pc = "idle"
    /\ script = "app"
    /\ uploaded_file = ""
    /\ analysis_type = ""
    /\ custom_prompt = <<>>
    /\ transcripts = NoCache
    /\ job = NoJob
    /\ delivered = {}
    /\ net = {}
    /\ data = NoValue
    /\ transcript_text = NoValue
    /\ displayed = NoValue
    /\ base_prompt = NoValue
    /\ formatted_prompt = NoValue
    /\ result = NoValue
    /\ analysis = NoValue
    /\ error = ""
    /\ file_before = file
    /\ budget = b
    /\ now = 0
    /\ spc = <<"idle", "idle">>
    /\ df_existing = <<EmptyFrame, EmptyFrame>>
    /\ report_dict = <<NoValue, NoValue>>

Init == InitWith(MaxRuns)

Next ==
    \/ \E name \in Files, type \in SelectableTypes, custom \in CustomPrompts :
          Submit("app", name, type, custom)
    \/ \E name \in Files, custom \in CustomPrompts :
          Submit("test", name, "", custom)
    \/ Upload
    \/ Request
    \/ ServiceAdvance
    \/ Poll
    \/ Analyze
    \/ Save

Spec == Init /\ [][Next]_vars

(***************************************************************************)
(* Properties of one session (Spec).                                       *)
(***************************************************************************)
NetworkStages == {"upload", "request", "poll"}

NetworkErrors == {"upload", "request", "poll", "transcription"}

ColumnOf(f, name) == CHOOSE k \in 1 .. Len(f.lines[1]) : f.lines[1][k] = Lit(name)

LastCell(f, name) == f.lines[Len(f.lines)][ColumnOf(f, name)]

EndsWith(s, t) ==
    /\ Len(s) >= Len(t)
    /\ SubSeq(s, Len(s) - Len(t) + 1, Len(s)) = t

\* C1: a submission whose upload, job request or poll fails, or whose job
\* reports status "error", is aborted: the runner was not invoked and the
\* report store is exactly as it was when the submission started.
C1_AbortLeavesStore ==
    error \in NetworkErrors =>
        /\ pc = "stopped"
        /\ file = file_before
        /\ result = NoValue
        /\ analysis = NoValue

C1_Witness ==
    /\ error = "transcription"
    /\ pc = "stopped"
    /\ RowCount(file) = 1
    /\ "poll" \in net

\* C2: when the runner exits non-zero the submission goes on: the analysis
\* is the error text ending with the runner's stderr, and the finished
\* submission has added exactly one row, whose analysis cell is that text.
C2_RunnerFailureStillSaved ==
    (result # NoValue /\ result[1].outcome = "nonzero") =>
        /\ pc \in {"save", "done"}
        /\ error = ""
        /\ analysis # NoValue
        /\ Head(analysis[1]) = "Error calling Ollama: "
        /\ EndsWith(analysis[1], result[1].stderr)
        /\ pc = "save" => file = file_before
        /\ pc = "done" =>
              /\ RowCount(file) = RowCount(file_before) + 1
              /\ LastCell(file, "analysis") = analysis[1]

C2_Witness ==
    /\ pc = "done"
    /\ result # NoValue
    /\ result[1].outcome = "nonzero"
    /\ RowCount(file) = 2

\* C3: a save leaves the N rows the store held unchanged, in content and
\* order, and adds the new row as row N+1.
C3_AppendOnly ==
    pc = "done" =>
        /\ RowCount(file) = RowCount(file_before) + 1
        /\ \A i \in 1 .. RowCount(file_before) :
              file.lines[i + 1] = file_before.lines[i + 1]
        /\ file.lines[Len(file.lines)] = CurrentReport.vals

FullTranscripts == {Dialogue(s, u) : s \in Scripts, u \in delivered}

\* C7: every transcript displayed, cached, embedded in a prompt or stored
\* is the dialogue of a response whose status was "completed"; during the
\* network stages and after an aborted transcription there is no transcript
\* and the cache holds nothing for the file.
C7_NoPartialTranscript ==
    /\ transcript_text # NoValue => transcript_text[1] \in FullTranscripts
    /\ displayed # NoValue => displayed[1] \in FullTranscripts
    /\ \A n \in DOMAIN transcripts : transcripts[n] \in FullTranscripts
    /\ formatted_prompt # NoValue =>
          \E t \in FullTranscripts :
              formatted_prompt[1] = FormattedPrompt(script, t, base_prompt[1])
    /\ \A i \in 1 .. RowCount(file) :
          file.lines[i + 1][ColumnOf(file, "transcript")] \in FullTranscripts
    /\ (pc \in NetworkStages \/ error \in NetworkErrors) =>
          /\ transcript_text = NoValue
          /\ displayed = NoValue
          /\ formatted_prompt = NoValue
          /\ script = "app" => uploaded_file \notin DOMAIN transcripts
    /\ (transcript_text # NoValue /\ data # NoValue) =>
          /\ data[1].status = "completed"
          /\ transcript_text[1] = Dialogue(script, data[1].utterances)

C7_Witness ==
    /\ pc = "done"
    /\ script = "app"
    /\ data # NoValue
    /\ transcript_text = Some(Dialogue("app", <<Question, Answer>>))
    /\ uploaded_file \in DOMAIN transcripts
    /\ RowCount(file) = 1

\* C8: in app.py a cache entry is never removed or changed, a request is
\* sent only for a file that has no cache entry, and a submission for a
\* cached file takes its transcript from the cache.
C8_CachedFileSkipsService ==
    [][/\ \A n \in DOMAIN transcripts :
             n \in DOMAIN transcripts' /\ transcripts'[n] = transcripts[n]
       /\ (script' = "app" /\ ~(net' \subseteq net)) =>
             uploaded_file' \notin DOMAIN transcripts
       /\ (/\ pc \notin InFlight
           /\ pc' # "idle"
           /\ script' = "app"
           /\ uploaded_file' \in DOMAIN transcripts) =>
             /\ pc' = "analyze"
             /\ net' = {}
             /\ transcript_text' = Some(transcripts[uploaded_file'])]_vars

C8_Witness ==
    /\ script = "app"
    /\ pc = "done"
    /\ net = {}
    /\ analysis_type = "Technical Depth"
    /\ transcript_text = Some(transcripts[uploaded_file])
    /\ RowCount(file) = 2

(***************************************************************************)
(* The poll loop under scheduling (LiveSpec): one submission; every        *)
(* blocking call returns, and the loop polls again after its sleep.        *)
(***************************************************************************)
LiveInit == InitWith(1)

LiveSpec ==
    /\ LiveInit
    /\ [][Next]_vars
    /\ WF_vars(Upload)
    /\ WF_vars(Request)
    /\ WF_vars(Poll)
    /\ WF_vars(Analyze)
    /\ WF_vars(Save)

\* C9: the poll loop is left only by a failed poll request or a response
\* whose status is "completed" or "error"; once the job is in a terminal
\* status the submission reaches Done or Failed.
C9_PollLoopExit ==
    /\ [][(pc = "poll" /\ pc' # "poll") =>
             \/ error' = "poll"
             \/ /\ data' # NoValue
                /\ data'[1].status \in {"completed", "error"}
                /\ job.status = data'[1].status]_vars
    /\ (pc = "poll" /\ job.status \in {"completed", "error"})
          ~> (pc \in {"done", "stopped"})

C9_Witness ==
    /\ pc = "poll"
    /\ data # NoValue
    /\ data[1].status = "processing"
    /\ job.status = "completed"

(***************************************************************************)
(* The dialogue as a function of the utterances (DialogueSpec): the job    *)
(* is completed with any utterance list up to MaxUtts, and the poll runs.  *)
(***************************************************************************)
DialogueInit ==
    /\ apiKey = TRUE
    /\ file = NoFile
    /\ file_before = NoFile
    /\ pc = "poll"
    /\ script \in Scripts
    /\ uploaded_file = "a.mp3"
    /\ analysis_type = IF script = "app" THEN "Extract Q&A" ELSE ""
    /\ custom_prompt = IF script = "app" THEN <<>> ELSE Lit("Summarize the call")
    /\ transcripts = NoCache
    /\ \E u \in SeqsUpTo(UtteranceKinds, MaxUtts) :
          job = [status |-> "completed", utterances |-> u,
                 error |-> Lit("corrupt file")]
    /\ delivered = {}
    /\ net = {"upload", "transcript"}
    /\ data = NoValue
    /\ transcript_text = NoValue
    /\ displayed = NoValue
    /\ base_prompt = NoValue
    /\ formatted_prompt = NoValue
    /\ result = NoValue
    /\ analysis = NoValue
    /\ error = ""
    /\ budget = 0
    /\ now = 1
    /\ spc = <<"idle", "idle">>
    /\ df_existing = <<EmptyFrame, EmptyFrame>>
    /\ report_dict = <<NoValue, NoValue>>

DialogueNext == Poll

DialogueSpec == DialogueInit /\ [][DialogueNext]_vars

RECURSIVE Split(_, _)
Split(t, cur) ==
    IF t = <<>> THEN (IF cur = <<>> THEN <<>> ELSE <<cur>>)
    ELSE IF Head(t) = "\n\n" THEN <<cur>> \o Split(Tail(t), <<>>)
    ELSE Split(Tail(t), Append(cur, Head(t)))

Tag(utt) == Get(utt, "speaker", Lit("Speaker"))

\* C4: in the transcript of a completed job the paragraphs of the first
\* speaker tag are labelled "Interviewer" and those of every other tag
\* "Interviewee".
C4_FirstSpeakerIsInterviewer ==
    (transcript_text # NoValue /\ data # NoValue) =>
        LET u == data[1].utterances
            ps == Split(transcript_text[1], <<>>)
        IN  /\ Len(ps) = Len(u)
            /\ \A i \in 1 .. Len(u) :
                  Head(ps[i]) = IF Tag(u[i]) = Tag(u[1]) THEN "Interviewer"
                                ELSE "Interviewee"

\* C5: the transcript of a completed job splits at the blank-line
\* separators into exactly one paragraph "<label>: <text>" per utterance,
\* in the order of the utterances, and is empty when there are none.
C5_OneParagraphPerUtterance ==
    (transcript_text # NoValue /\ data # NoValue) =>
        LET u == data[1].utterances
            t == transcript_text[1]
            ps == Split(t, <<>>)
        IN  /\ (u = <<>>) <=> (t = <<>>)
            /\ t # <<>> => t[Len(t)] = "\n\n"
            /\ Len(ps) = Len(u)
            /\ \A i \in 1 .. Len(u) :
                  /\ Len(ps[i]) >= 2
                  /\ <<ps[i][1]>> = Label(script, Tag(u[i]))
                  /\ ps[i][2] = ": "
                  /\ SubSeq(ps[i], 3, Len(ps[i])) = Get(u[i], "text", <<>>)

C5_Witness ==
    /\ pc = "analyze"
    /\ data # NoValue
    /\ data[1].utterances = <<Question, Answer>>
    /\ transcript_text =
          Some(<<"Interviewer", ": ", "Tell me about yourself", "\n\n",
                 "Interviewee", ": ", "I am a backend engineer", "\n\n">>)

(***************************************************************************)
(* Two submissions saving at once (RaceSpec): each saver reads the file    *)
(* and later writes it back; the reads and writes interleave.              *)
(***************************************************************************)
Savers == {1, 2}

SaverReports(p) ==
    {ReportDict(s, p, name, "Skill Summary", Dialogue(s, <<Question, Answer>>),
                Lit("Overall Score: 7/10"), prompt_map["Skill Summary"]) :
        s \in Scripts, name \in Files}

EarlierReport ==
    ReportDict("app", 0, "a.mp3", "Technical Depth", Dialogue("app", <<Question>>),
               Lit("Rating: 6/10"), prompt_map["Technical Depth"])

RaceInit ==
    /\ apiKey = TRUE
    /\ file \in {NoFile, save_report_to_csv(NoFile, EarlierReport)}
    /\ file_before = file
    /\ pc = "idle"
    /\ script = "app"
    /\ uploaded_file = ""
    /\ analysis_type = ""
    /\ custom_prompt = <<>>
    /\ transcripts = NoCache
    /\ job = NoJob
    /\ delivered = {}
    /\ net = {}
    /\ data = NoValue
    /\ transcript_text = NoValue
    /\ displayed = NoValue
    /\ base_prompt = NoValue
    /\ formatted_prompt = NoValue
    /\ result = NoValue
    /\ analysis = NoValue
    /\ error = ""
    /\ budget = 0
    /\ now = 0
    /\ spc = <<"read", "read">>
    /\ df_existing = <<EmptyFrame, EmptyFrame>>
    /\ \E r1 \in SaverReports(1), r2 \in SaverReports(2) :
          report_dict = <<Some(r1), Some(r2)>>

\* pd.read_csv of saver p
SaveRead(p) ==
    /\ spc[p] = "read"
    /\ df_existing' = [df_existing EXCEPT ![p] = read_csv(file)]
    /\ spc' = [spc EXCEPT ![p] = "write"]
    /\ UNCHANGED <<apiKey, pc, script, uploaded_file, analysis_type, custom_prompt,
                   transcripts, job, delivered, net, data, transcript_text,
                   displayed, base_prompt, formatted_prompt, result, analysis, error,
                   file, file_before, budget, now, report_dict>>

\* concat and to_csv of saver p
SaveWrite(p) ==
    /\ spc[p] = "write"
    /\ file' = WriteBack(file, df_existing[p], report_dict[p][1])
    /\ spc' = [spc EXCEPT ![p] = "done"]
    /\ UNCHANGED <<apiKey, pc, script, uploaded_file, analysis_type, custom_prompt,
                   transcripts, job, delivered, net, data, transcript_text,
                   displayed, base_prompt, formatted_prompt, result, analysis, error,
                   file_before, budget, now, df_existing, report_dict>>

RaceNext == \E p \in Savers : SaveRead(p) \/ SaveWrite(p)

RaceSpec == RaceInit /\ [][RaceNext]_vars

Holds(f, p) ==
    \E i \in 1 .. RowCount(f) :
        f.lines[i + 1][ColumnOf(f, "timestamp")] = report_dict[p][1].vals[1]

Larger(a, b) == IF a >= b THEN a ELSE b

\* C10: when both savers are done the file is what the last writer read
\* plus its row: if both read the same store, one of the two rows is lost.
C10_LastWriterWins ==
    (spc[1] = "done" /\ spc[2] = "done") =>
        LET n1 == Len(df_existing[1].rows)
            n2 == Len(df_existing[2].rows)
        IN  /\ RowCount(file) = Larger(n1, n2) + 1
            /\ (n1 = n2) => (Holds(file, 1) # Holds(file, 2))
            /\ (n1 # n2) => (Holds(file, 1) /\ Holds(file, 2))

C10_Witness ==
    /\ spc[1] = "done"
    /\ spc[2] = "done"
    /\ RowCount(file_before) = 1
    /\ RowCount(file) = 2
    /\ Holds(file, 2)
    /\ ~Holds(file, 1)

====
